---- MODULE Spec2Model ----
(***************************************************************************)
(* Model of the game controller of src/src/App.jsx: the React component    *)
(* App with its state hooks (board, xTurn, winner, scores, history), the   *)
(* three input handlers (handleClick, reset, undo), the effect that runs   *)
(* after every render in which `board` changed, and the localStorage       *)
(* entry "scores".                                                         *)
(***************************************************************************)
EXTENDS Integers, Sequences, FiniteSets, TLC

VARIABLES
    board,      \* useState(Array(9).fill(null)): cell index 0..8 -> mark
    xTurn,      \* useState(true)
    winner,     \* useState(null): Null, "X", "O" or "draw"
    scores,     \* useState(...): [X |-> n, O |-> n, draw |-> n]
    history,    \* useState([]): sequence of earlier board values
    stored,     \* localStorage entry "scores": JSON text, <<>> when absent
    pc,         \* "idle": waiting for an input event;
                \* "effect": board was replaced, its effect has not run yet;
                \* "eval", "evaluated": before and after a lone getWinner call
    lastOp,     \* the callback that ran last: "init", "click", "undo",
                \* "reset" or "effect"
    gameStart,  \* observer of SpecGame: X+O+draw when the current game began
    everDecided, \* observer of SpecGame: the current game was decided at some time
    trip        \* observer of SpecRound: the state an undo/redo round trip
                \* started from, and how far the round trip has come

vars == <<board, xTurn, winner, scores, history, stored, pc, lastOp,
          gameStart, everDecided, trip>>

\* the state of the component and of the store
prog == <<board, xTurn, winner, scores, history, stored>>

\* the observers of a game (initial state or reset, up to the next reset)
game == <<gameStart, everDecided>>

\* everything the model records about a run without the program holding it
observers == <<gameStart, everDecided, trip>>

----------------------------------------------------------------------------
\* Bounds

\* a click may pick any occupied cell, and among the empty cells one of the
\* MaxChoice lowest-numbered ones
MaxChoice == 3

\* no mark is placed once X+O+draw has reached MaxTotal
MaxTotal == 2

----------------------------------------------------------------------------
\* Values

Null == "null"

Cells == 0..8

Marks == {"X", "O"}

EmptyBoard == [c \in Cells |-> Null]

ZeroScores == [X |-> 0, O |-> 0, draw |-> 0]

\* no round trip under way
NoTrip ==
    [step |-> 0, cell |-> 0, board |-> EmptyBoard, xTurn |-> TRUE,
     history |-> <<>>, winner |-> Null]

Total(s) == s["X"] + s["O"] + s["draw"]

Count(b, m) == Cardinality({c \in Cells : b[c] = m})

----------------------------------------------------------------------------
\* Game logic

combosTypo ==
    << <<0, 1, 2>>, <<3, 4, 5>>, <<6, 7, 8>>,
       <<0, 3, 6>>, <<1, 4, 7>>, <<2, 5, 8>>,
       <<0, 4, 8>>, <<2, 4, 8>> >>

combos ==
    << <<0, 1, 2>>, <<3, 4, 5>>, <<6, 7, 8>>,
       <<0, 3, 6>>, <<1, 4, 7>>, <<2, 5, 8>>,
       <<0, 4, 8>>, <<2, 4, 6>> >>

\* the for loop of getWinner, from combo k on
RECURSIVE scanCombos(_, _)
scanCombos(b, k) ==
    IF k > Len(combos)
    THEN IF \E c \in Cells : b[c] = Null THEN Null ELSE "draw"
    ELSE IF /\ b[combos[k][1]] # Null
            /\ b[combos[k][1]] = b[combos[k][2]]
            /\ b[combos[k][1]] = b[combos[k][3]]
         THEN b[combos[k][1]]
         ELSE scanCombos(b, k + 1)

getWinnerNoDraw(b) ==
    LET res == scanCombos(b, 1) IN IF res = "draw" THEN Null ELSE res

getWinner(b) == scanCombos(b, 1)

----------------------------------------------------------------------------
\* Persistence: a JSON object text is the sequence of its key/value pairs

JSONstringify(s) == << <<"X", s["X"]>>, <<"O", s["O"]>>, <<"draw", s["draw"]>> >>

JSONparse(t) ==
    [k \in {t[j][1] : j \in DOMAIN t} |->
        LET last == CHOOSE j \in DOMAIN t :
                        /\ t[j][1] = k
                        /\ \A h \in DOMAIN t : t[h][1] = k => h <= j
        IN  t[last][2]]

loadScoresIgnoresSaved(saved) == ZeroScores

\* the lazy initializer of the scores hook
loadScores(saved) == IF saved # <<>> THEN JSONparse(saved) ELSE ZeroScores

----------------------------------------------------------------------------
\* The empty cells a click is drawn from
Choices(b) ==
    {c \in Cells : /\ b[c] = Null
                   /\ Cardinality({d \in Cells : d < c /\ b[d] = Null}) < MaxChoice}

Init ==
    /\ board = EmptyBoard
    /\ xTurn = TRUE
    /\ winner = Null
    /\ stored = <<>>
    /\ scores = loadScores(stored)
    /\ history = <<>>
    /\ pc = "idle"
    /\ lastOp = "init"
    /\ gameStart = Total(scores)
    /\ everDecided = FALSE
    /\ trip = NoTrip

handleClickNoOccupiedGuard(i) ==
    /\ pc = "idle"
    /\ lastOp' = "click"
    /\ IF winner # Null
       THEN UNCHANGED <<board, xTurn, winner, scores, history, stored, pc>>
       ELSE /\ pc' = "effect"
            /\ board[i] = Null => i \in Choices(board)
            /\ Total(scores) < MaxTotal
            /\ board' = [board EXCEPT ![i] = IF xTurn THEN "X" ELSE "O"]
            /\ history' = Append(history, board)
            /\ xTurn' = ~xTurn
            /\ UNCHANGED <<winner, scores, stored>>

handleClickNoWinnerGuard(i) ==
    /\ pc = "idle"
    /\ lastOp' = "click"
    /\ IF board[i] # Null
       THEN UNCHANGED <<board, xTurn, winner, scores, history, stored, pc>>
       ELSE /\ pc' = "effect"
            /\ i \in Choices(board)
            /\ Total(scores) < MaxTotal
            /\ board' = [board EXCEPT ![i] = IF xTurn THEN "X" ELSE "O"]
            /\ history' = Append(history, board)
            /\ xTurn' = ~xTurn
            /\ UNCHANGED <<winner, scores, stored>>

handleClickNoFlip(i) ==
    /\ pc = "idle"
    /\ lastOp' = "click"
    /\ IF board[i] # Null \/ winner # Null
       THEN UNCHANGED <<board, xTurn, winner, scores, history, stored, pc>>
       ELSE /\ pc' = "effect"
            /\ i \in Choices(board)
            /\ Total(scores) < MaxTotal
            /\ board' = [board EXCEPT ![i] = IF xTurn THEN "X" ELSE "O"]
            /\ history' = Append(history, board)
            /\ UNCHANGED <<xTurn, winner, scores, stored>>

handleClickPushesNew(i) ==
    /\ pc = "idle"
    /\ lastOp' = "click"
    /\ IF board[i] # Null \/ winner # Null
       THEN UNCHANGED <<board, xTurn, winner, scores, history, stored, pc>>
       ELSE /\ pc' = "effect"
            /\ i \in Choices(board)
            /\ Total(scores) < MaxTotal
            /\ board' = [board EXCEPT ![i] = IF xTurn THEN "X" ELSE "O"]
            /\ history' = Append(history, board')
            /\ xTurn' = ~xTurn
            /\ UNCHANGED <<winner, scores, stored>>

\* onClick of cell i
handleClick(i) ==
    /\ pc = "idle"
    /\ lastOp' = "click"
    /\ IF board[i] # Null \/ winner # Null
       THEN UNCHANGED <<board, xTurn, winner, scores, history, stored, pc>>
       ELSE /\ pc' = "effect"
            /\ i \in Choices(board)
            /\ Total(scores) < MaxTotal
            /\ board' = [board EXCEPT ![i] = IF xTurn THEN "X" ELSE "O"]
            /\ history' = Append(history, board)
            /\ xTurn' = ~xTurn
            /\ UNCHANGED <<winner, scores, stored>>

resetKeepsTurn ==
    /\ pc = "idle"
    /\ lastOp' = "reset"
    /\ board' = EmptyBoard
    /\ winner' = Null
    /\ history' = <<>>
    /\ pc' = "effect"
    /\ UNCHANGED <<xTurn, scores, stored>>

\* onClick of "Reset" and of "Play Again"
reset ==
    /\ pc = "idle"
    /\ lastOp' = "reset"
    /\ board' = EmptyBoard
    /\ winner' = Null
    /\ xTurn' = TRUE
    /\ history' = <<>>
    /\ pc' = "effect"
    /\ UNCHANGED <<scores, stored>>

undoKeepsWinner ==
    /\ pc = "idle"
    /\ lastOp' = "undo"
    /\ IF Len(history) = 0
       THEN UNCHANGED <<board, xTurn, winner, scores, history, stored, pc>>
       ELSE /\ board' = history[Len(history)]
            /\ history' = SubSeq(history, 1, Len(history) - 1)
            /\ xTurn' = ~xTurn
            /\ pc' = "effect"
            /\ UNCHANGED <<winner, scores, stored>>

undoNoFlip ==
    /\ pc = "idle"
    /\ lastOp' = "undo"
    /\ IF Len(history) = 0
       THEN UNCHANGED <<board, xTurn, winner, scores, history, stored, pc>>
       ELSE /\ board' = history[Len(history)]
            /\ history' = SubSeq(history, 1, Len(history) - 1)
            /\ winner' = Null
            /\ pc' = "effect"
            /\ UNCHANGED <<xTurn, scores, stored>>

\* onClick of "Undo"
undo ==
    /\ pc = "idle"
    /\ lastOp' = "undo"
    /\ IF Len(history) = 0
       THEN UNCHANGED <<board, xTurn, winner, scores, history, stored, pc>>
       ELSE /\ board' = history[Len(history)]
            /\ history' = SubSeq(history, 1, Len(history) - 1)
            /\ winner' = Null
            /\ xTurn' = ~xTurn
            /\ pc' = "effect"
            /\ UNCHANGED <<scores, stored>>

boardEffectStoresPrev ==
    /\ pc = "effect"
    /\ pc' = "idle"
    /\ lastOp' = "effect"
    /\ LET res == getWinner(board) IN
       IF res # Null
       THEN LET updated == [scores EXCEPT ![res] = scores[res] + 1] IN
            /\ winner' = res
            /\ scores' = updated
            /\ stored' = JSONstringify(scores)
       ELSE UNCHANGED <<winner, scores, stored>>
    /\ UNCHANGED <<board, xTurn, history>>

boardEffectForgetsWinner ==
    /\ pc = "effect"
    /\ pc' = "idle"
    /\ lastOp' = "effect"
    /\ LET res == getWinner(board) IN
       IF res # Null
       THEN LET updated == [scores EXCEPT ![res] = scores[res] + 1] IN
            /\ scores' = updated
            /\ stored' = JSONstringify(updated)
            /\ UNCHANGED winner
       ELSE UNCHANGED <<winner, scores, stored>>
    /\ UNCHANGED <<board, xTurn, history>>

boardEffectIgnoresDraw ==
    /\ pc = "effect"
    /\ pc' = "idle"
    /\ lastOp' = "effect"
    /\ LET res == getWinner(board) IN
       IF res # Null /\ res # "draw"
       THEN LET updated == [scores EXCEPT ![res] = scores[res] + 1] IN
            /\ winner' = res
            /\ scores' = updated
            /\ stored' = JSONstringify(updated)
       ELSE UNCHANGED <<winner, scores, stored>>
    /\ UNCHANGED <<board, xTurn, history>>

\* useEffect(..., [board]): runs once after every render that replaced board,
\* before the next input event is handled
boardEffect ==
    /\ pc = "effect"
    /\ pc' = "idle"
    /\ lastOp' = "effect"
    /\ LET res == getWinner(board) IN
       IF res # Null
       THEN LET updated == [scores EXCEPT ![res] = scores[res] + 1] IN
            /\ winner' = res
            /\ scores' = updated
            /\ stored' = JSONstringify(updated)
       ELSE UNCHANGED <<winner, scores, stored>>
    /\ UNCHANGED <<board, xTurn, history>>

Next ==
    \/ \E i \in Cells : handleClick(i) /\ UNCHANGED observers
    \/ reset /\ UNCHANGED observers
    \/ undo /\ UNCHANGED observers
    \/ boardEffect /\ UNCHANGED observers

Spec == Init /\ [][Next]_vars

----------------------------------------------------------------------------
\* The same program, observed game by game

NextGame ==
    \/ (\E i \in Cells : handleClick(i)) /\ UNCHANGED observers
    \/ reset /\ gameStart' = Total(scores) /\ everDecided' = FALSE
             /\ UNCHANGED trip
    \/ undo /\ UNCHANGED observers
    \/ boardEffect /\ everDecided' = (everDecided \/ winner' # Null)
                   /\ UNCHANGED <<gameStart, trip>>

SpecGame == Init /\ [][NextGame]_vars

----------------------------------------------------------------------------
\* The same program over several sessions: the page is loaded again and App
\* is constructed anew, with the store as the last session left it

mount ==
    /\ pc = "idle"
    /\ lastOp' = "init"
    /\ board' = EmptyBoard
    /\ xTurn' = TRUE
    /\ winner' = Null
    /\ scores' = loadScores(stored)
    /\ history' = <<>>
    /\ pc' = "effect"
    /\ UNCHANGED <<stored, observers>>

NextSession ==
    \/ Next
    \/ mount

SpecSession == Init /\ [][NextSession]_vars

----------------------------------------------------------------------------
\* One game played out: from the empty board the players only make moves
\* the handler accepts, and keep moving while a move is possible

\* a click that passes the guard of handleClick and places a mark
acceptedMove ==
    \E i \in Cells :
        /\ board[i] = Null
        /\ winner = Null
        /\ handleClick(i)

NextPlay ==
    \/ acceptedMove /\ UNCHANGED observers
    \/ boardEffect /\ UNCHANGED observers

\* React runs a pending effect; the players do not stop before the end
SpecPlay == Init /\ [][NextPlay]_vars /\ WF_vars(NextPlay)

----------------------------------------------------------------------------
\* The same program, with undo followed by the same move again tried from
\* every state a move has led to

\* the cell the last accepted move filled
lastMove == CHOOSE c \in Cells : history[Len(history)][c] # board[c]

\* Undo is clicked in a state a move has led to; the state is recorded
tripUndo ==
    /\ trip.step = 0
    /\ history # <<>>
    /\ undo
    /\ trip' = [step |-> 1, cell |-> lastMove, board |-> board,
                xTurn |-> xTurn, history |-> history, winner |-> winner]
    /\ UNCHANGED game

tripEffect ==
    /\ trip.step \in {1, 3}
    /\ boardEffect
    /\ trip' = [trip EXCEPT !.step = trip.step + 1]
    /\ UNCHANGED game

\* the cell of the undone move is clicked again
tripRedo ==
    /\ trip.step = 2
    /\ handleClick(trip.cell)
    /\ trip' = [trip EXCEPT !.step = 3]
    /\ UNCHANGED game

NextRound ==
    \/ trip.step = 0 /\ Next
    \/ tripUndo
    \/ tripEffect
    \/ tripRedo

SpecRound == Init /\ [][NextRound]_vars

----------------------------------------------------------------------------
\* getWinner alone, applied to each of the 3^9 boards

InitEval ==
    /\ board \in [Cells -> Marks \cup {Null}]
    /\ xTurn = TRUE
    /\ winner = Null
    /\ stored = <<>>
    /\ scores = ZeroScores
    /\ history = <<>>
    /\ pc = "eval"
    /\ lastOp = "init"
    /\ gameStart = 0
    /\ everDecided = FALSE
    /\ trip = NoTrip

evaluateOutcome ==
    /\ pc = "eval"
    /\ winner' = getWinner(board)
    /\ pc' = "evaluated"
    /\ UNCHANGED <<board, xTurn, scores, history, stored, lastOp, observers>>

NextEval == evaluateOutcome

SpecEval == InitEval /\ [][NextEval]_vars

----------------------------------------------------------------------------
\* The boards getWinner can be given next to the boards play leads to: the
\* runs of SpecEval together with the runs of Spec

SpecBoards == (Init \/ InitEval) /\ [][Next \/ NextEval]_vars

----------------------------------------------------------------------------
\* Vocabulary of the properties

TypeOK ==
    /\ board \in [Cells -> Marks \cup {Null}]
    /\ xTurn \in BOOLEAN
    /\ winner \in Marks \cup {Null, "draw"}
    /\ scores \in [{"X", "O", "draw"} -> 0..MaxTotal]
    /\ history \in Seq([Cells -> Marks \cup {Null}])
    /\ pc \in {"idle", "effect", "eval", "evaluated"}
    /\ lastOp \in {"init", "click", "undo", "reset", "effect"}

\* the 8 triples as sets, in the order rows, columns, diagonals
RefLines ==
    [k \in 1..8 |->
        IF k <= 3 THEN {3 * (k - 1), 3 * (k - 1) + 1, 3 * (k - 1) + 2}
        ELSE IF k <= 6 THEN {k - 4, k - 1, k + 2}
        ELSE IF k = 7 THEN {0, 4, 8}
        ELSE {2, 4, 6}]

Complete(b, k, m) == \A c \in RefLines[k] : b[c] = m

HasLine(b) == \E k \in 1..8 : \E m \in Marks : Complete(b, k, m)

Full(b) == \A c \in Cells : b[c] # Null

RefOutcome(b) ==
    IF HasLine(b)
    THEN LET first == CHOOSE k \in 1..8 :
                          /\ \E m \in Marks : Complete(b, k, m)
                          /\ \A j \in 1..(k - 1) : \A m \in Marks : ~Complete(b, j, m)
         IN  CHOOSE m \in Marks : Complete(b, first, m)
    ELSE IF Full(b) THEN "draw" ELSE Null

\* the triples that are complete on b, whatever their mark
CompleteLines(b) == {k \in 1..8 : \E m \in Marks : Complete(b, k, m)}

\* the players that hold a complete triple on b
LineHolders(b) == {m \in Marks : \E k \in 1..8 : Complete(b, k, m)}

\* as many X as O, or one more X
Balanced(b) == Count(b, "X") - Count(b, "O") \in {0, 1}

\* the board after the moves 0, 1, 3, 4, 6 from the empty board
ColumnWinBoard ==
    [c \in Cells |-> IF c \in {0, 3, 6} THEN "X"
                     ELSE IF c \in {1, 4} THEN "O" ELSE Null]

----------------------------------------------------------------------------
\* C1 (under SpecGame): within one game, from the initial state or a reset
\* up to the next reset, X+O+draw has grown by exactly 1 if the game was
\* ever decided and by 0 otherwise, whatever clicks and undos were made.
C1_OncePerGame ==
    Total(scores) - gameStart = IF everDecided THEN 1 ELSE 0

\* C2: a click on an occupied cell, or while the winner is decided, changes
\* neither board, turn, history, winner, scores nor the stored scores (a
\* step that changes one of them is no such click); so a second click on
\* the cell just played leaves the board as the first left it.
C2_ClickIgnored ==
    [][\/ UNCHANGED prog
       \/ \A i \in Cells :
              (board[i] # Null \/ winner # Null) => ~handleClick(i)]_vars

\* an ignored click has just been handled in a decided game
C2_Witness ==
    /\ lastOp = "click"
    /\ pc = "idle"
    /\ winner = "X"
    /\ \E c \in Cells : board[c] = Null

\* C3: a click on an empty cell while the winner is none appends the
\* pre-move board to history, puts the mark of the player to move (X when
\* xTurn, else O) into that cell, leaves the 8 other cells alone and flips
\* the turn.
C3_AcceptedMove ==
    [][\A i \in Cells :
          (board[i] = Null /\ winner = Null /\ handleClick(i))
              => /\ board'[i] = (IF xTurn THEN "X" ELSE "O")
                 /\ \A c \in Cells \ {i} : board'[c] = board[c]
                 /\ xTurn' = ~xTurn
                 /\ history' = Append(history, board)]_vars

\* O has just placed the second mark of a game
C3_Witness ==
    /\ lastOp = "click"
    /\ pc = "effect"
    /\ Len(history) = 2
    /\ Count(board, "O") = 1
    /\ xTurn

\* C4: undo with an empty history changes nothing; otherwise the board
\* becomes the last snapshot, exactly that snapshot leaves history, winner
\* becomes none, the turn flips and the scores, in memory and stored, stay;
\* the effect that follows the undo decides nothing and counts nothing.
C4_UndoContract ==
    [][/\ (pc = "idle" /\ lastOp' = "undo" /\ history = <<>>)
              => UNCHANGED prog
       /\ (pc = "idle" /\ lastOp' = "undo" /\ history # <<>>)
              => /\ board' = history[Len(history)]
                 /\ Append(history', board') = history
                 /\ winner' = Null
                 /\ xTurn' = ~xTurn
                 /\ UNCHANGED <<scores, stored>>
       /\ (pc = "effect" /\ lastOp = "undo")
              => /\ winner' = Null
                 /\ UNCHANGED <<scores, stored>>]_vars

\* undo has just taken the ninth mark off a full, hence decided, board
C4_Witness ==
    /\ lastOp = "undo"
    /\ pc = "effect"
    /\ Len(history) = 8
    /\ winner = Null
    /\ Total(scores) >= 1

\* C5: reset, from an undecided or a decided state, leaves 9 empty cells,
\* winner none, an empty history and X to move, and the scores, in memory
\* and stored, as they were; the effect that follows changes nothing.
C5_ResetContract ==
    [][/\ (pc = "idle" /\ lastOp' = "reset")
              => /\ board' = EmptyBoard
                 /\ winner' = Null
                 /\ history' = <<>>
                 /\ xTurn' = TRUE
                 /\ UNCHANGED <<scores, stored>>
       /\ (pc = "effect" /\ lastOp = "reset")
              => UNCHANGED prog]_vars

\* reset has just been handled after a drawn game was counted
C5_Witness ==
    /\ lastOp = "reset"
    /\ pc = "effect"
    /\ board = EmptyBoard
    /\ scores["draw"] = 1
    /\ JSONparse(stored) = scores

\* C6: every step that takes winner from none to r in {X, O, draw} adds
\* exactly 1 to the counter of r, keeps the two other counters, and leaves
\* in the store a mapping equal to the scores in memory.
C6_ScoreOnDecision ==
    [][(winner = Null /\ winner' # Null)
          => /\ scores' = [scores EXCEPT ![winner'] = scores[winner'] + 1]
             /\ stored' # <<>>
             /\ JSONparse(stored') = scores']_vars

\* the moves 0, 1, 3, 4, 6 from the empty board: X wins, X counter 0 -> 1
C6_Witness ==
    /\ pc = "idle"
    /\ board = ColumnWinBoard
    /\ Len(history) = 5
    /\ history[1] = EmptyBoard
    /\ history[2][0] = "X"
    /\ history[3][1] = "O"
    /\ history[4][3] = "X"
    /\ history[5][4] = "O"
    /\ winner = "X"
    /\ scores = [X |-> 1, O |-> 0, draw |-> 0]
    /\ JSONparse(stored) = scores

\* C7 (under SpecEval): on each of the 3^9 boards getWinner returns the
\* mark of the first complete triple in the order rows, columns, diagonals
\* when there is one, draw exactly when no triple is complete and no cell is
\* empty, and none otherwise.
C7_GetWinnerReference ==
    pc = "evaluated"
        => /\ winner = RefOutcome(board)
           /\ (winner = "draw") = (~HasLine(board) /\ Full(board))
           /\ (winner = Null) = (~HasLine(board) /\ ~Full(board))
           /\ winner \in Marks => \E k \in 1..8 : Complete(board, k, winner)

\* a full board holding a complete line of O was evaluated to O, not draw
C7_Witness ==
    /\ pc = "evaluated"
    /\ Full(board)
    /\ \E k \in 1..8 : Complete(board, k, "O")
    /\ winner = "O"

\* C8: in every reachable state the board holds as many X as O, or one
\* more X.
C8_MarkBalance ==
    Count(board, "X") - Count(board, "O") \in {0, 1}

\* an undo has just left a board with one more X than O
C8_Witness ==
    /\ lastOp = "undo"
    /\ pc = "effect"
    /\ Count(board, "X") = 2
    /\ Count(board, "O") = 1

\* C9: whenever an input can be handled, winner is getWinner(board): it is
\* decided exactly when the board has a complete line or is full, and it
\* names that outcome.
C9_WinnerMatchesBoard ==
    pc = "idle"
        => /\ winner = getWinner(board)
           /\ (winner # Null) = (HasLine(board) \/ Full(board))
           /\ winner \in Marks => \E k \in 1..8 : Complete(board, k, winner)
           /\ winner = "draw" => ~HasLine(board)

\* a drawn game waits for the next input
C9_Witness ==
    /\ pc = "idle"
    /\ lastOp = "effect"
    /\ winner = "draw"
    /\ Full(board)

\* C10: winner goes from decided to none only in a reset or an undo, never
\* from one decided value to another, and while winner is decided the board
\* changes only in a reset or an undo.
C10_GameFlow ==
    [][/\ (winner # Null /\ winner' = Null) => lastOp' \in {"reset", "undo"}
       /\ (winner # Null /\ winner' # Null) => winner' = winner
       /\ (winner # Null /\ board' # board) => lastOp' \in {"reset", "undo"}]_vars

\* a game that was full and decided is in progress again after an undo
C10_Witness ==
    /\ pc = "idle"
    /\ lastOp = "effect"
    /\ winner = Null
    /\ Len(history) = 8
    /\ Total(scores) >= 1

\* C11 (under SpecRound): from every state an accepted move on cell i has
\* led to, undo followed by a click on cell i gives the same board again,
\* with the same turn, history and winner.
C11_UndoRedoRoundTrip ==
    trip.step = 4
        => /\ board = trip.board
           /\ xTurn = trip.xTurn
           /\ history = trip.history
           /\ winner = trip.winner

\* a round trip from a game that O had won has been completed
C11_Witness ==
    /\ trip.step = 4
    /\ pc = "idle"
    /\ trip.winner = "O"
    /\ Len(trip.history) >= 6
    /\ board[trip.cell] = "O"

\* C12 (under SpecSession): a session starts with all-zero scores when the
\* store holds no entry and with the stored mapping otherwise; every change
\* of the scores leaves the stored mapping equal to them; so a new session
\* starts with exactly the scores the session before it ended with.
C12_ScoresAcrossSessions ==
    [][/\ (pc = "idle" /\ lastOp' = "init")
              => /\ scores' = (IF stored = <<>> THEN ZeroScores
                                                ELSE JSONparse(stored))
                 /\ scores' = scores
                 /\ stored' = stored
       /\ scores' # scores
              => /\ stored' # <<>>
                 /\ JSONparse(stored') = scores']_vars

\* a session has just started with the scores of two games played before
C12_Witness ==
    /\ lastOp = "init"
    /\ pc = "effect"
    /\ scores = [X |-> 1, O |-> 1, draw |-> 0]
    /\ board = EmptyBoard
    /\ history = <<>>

\* C13, as claimed: in every reachable state at most one of the 8 triples
\* is complete.
C13_AtMostOneLine ==
    Cardinality(CompleteLines(board)) <= 1

\* C13, amended: in every reachable state at most two triples are complete;
\* two complete triples carry the same mark and cross in one cell; and every
\* complete triple carries the mark getWinner returns, so the order of the
\* scan cannot change the outcome.
C13_LinesAgree ==
    LET done == CompleteLines(board) IN
    /\ Cardinality(done) <= 2
    /\ \A j, k \in done :
          j # k => /\ Cardinality(RefLines[j] \cap RefLines[k]) = 1
                   /\ \A c \in RefLines[j] \cup RefLines[k] :
                         board[c] = getWinner(board)
    /\ \A k \in done : Complete(board, k, getWinner(board))

\* the last mark of X completed two triples at once
C13_Witness ==
    /\ Cardinality(CompleteLines(board)) = 2
    /\ pc = "idle"
    /\ winner = "X"

\* C14 (under SpecBoards), as claimed: on every board with as many X as O,
\* or one more X, whether play leads to it or not, at most one of the two
\* players holds a complete triple.
C14_BalancedBoardsOneHolder ==
    Balanced(board) => Cardinality(LineHolders(board)) <= 1

\* C14, amended: on every board that play reaches at most one of the two
\* players holds a complete triple, and getWinner returns that player.
C14_ReachableBoardsOneHolder ==
    pc \in {"idle", "effect"}
        => /\ Balanced(board)
           /\ Cardinality(LineHolders(board)) <= 1
           /\ LineHolders(board) # {} => LineHolders(board) = {getWinner(board)}

\* O holds a complete triple on a board with four marks of each player
C14_Witness ==
    /\ pc = "idle"
    /\ LineHolders(board) = {"O"}
    /\ Count(board, "X") = 4
    /\ Count(board, "O") = 4
    /\ winner = "O"

C16_TurnMatchesBoard ==
    /\ [](/\ xTurn = (Count(board, "X") = Count(board, "O"))
          /\ ~xTurn = (Count(board, "X") = Count(board, "O") + 1))
    /\ [][(lastOp' = "click" /\ board' # board)
             => \E m \in Marks :
                   /\ Count(board', m) = Count(board, m) + 1
                   /\ \A o \in Marks : Count(board, m) <= Count(board, o)]_vars

\* O is to move after an undo took O's third mark off the board
C16_Witness ==
    /\ lastOp = "undo"
    /\ pc = "effect"
    /\ ~xTurn
    /\ Count(board, "X") = 3
    /\ Count(board, "O") = 2

\* C17: in every reachable state history is the chain of boards that led to
\* the current one: it has as many snapshots as the board has marks (at
\* most 9), its k-th snapshot (k from 0) holds k marks, each snapshot
\* differs from the next one (the current board after the last) in exactly
\* one cell, empty before and marked after, and no snapshot is decided; so
\* undoing the whole history ends at the empty board with X to move.
C17_HistoryIsTheChain ==
    [](/\ Len(history) = Count(board, "X") + Count(board, "O")
       /\ Len(history) <= 9
       /\ \A k \in 1..Len(history) :
             LET snap == history[k]
                 next == IF k < Len(history) THEN history[k + 1] ELSE board
                 diff == {c \in Cells : snap[c] # next[c]}
             IN  /\ Count(snap, "X") + Count(snap, "O") = k - 1
                 /\ Cardinality(diff) = 1
                 /\ \A c \in diff : snap[c] = Null /\ next[c] \in Marks
                 /\ getWinner(snap) = Null
       /\ history # <<>> => history[1] = EmptyBoard
       /\ xTurn = (Len(history) % 2 = 0))

\* a drawn game with its nine snapshots
C17_Witness ==
    /\ Len(history) = 9
    /\ pc = "idle"
    /\ winner = "draw"
    /\ history[9] # board

\* C18: in every reachable state no two complete lines carry different
\* marks, and a decided winner is the player who made the last move: winner
\* X goes with one more X than O, winner O with as many X as O, a draw with
\* a full board without a complete line; and no game is decided with fewer
\* than 5 marks on the board.
C18_LastMoverWins ==
    [](/\ Cardinality(LineHolders(board)) <= 1
       /\ winner = "X" => Count(board, "X") = Count(board, "O") + 1
       /\ winner = "O" => Count(board, "X") = Count(board, "O")
       /\ winner = "draw" => Full(board) /\ ~HasLine(board)
       /\ winner # Null => Count(board, "X") + Count(board, "O") >= 5
       /\ winner \in Marks
             => /\ winner = (IF xTurn THEN "O" ELSE "X")
                /\ \E c \in Cells :
                      /\ board[c] = winner
                      /\ history[Len(history)][c] = Null)

\* O has won with its third mark, the sixth of the game
C18_Witness ==
    /\ winner = "O"
    /\ pc = "idle"
    /\ Count(board, "X") = 3
    /\ Count(board, "O") = 3

\* C19 (under SpecPlay): a game in which only accepted moves occur is
\* eventually decided, after at most 9 accepted moves; and as long as it is
\* undecided and an input can be handled some cell is empty and a move is
\* enabled.
C19_EveryGameTerminates ==
    /\ <>(winner # Null)
    /\ [](Len(history) <= 9)
    /\ [](winner = Null /\ pc = "idle"
             => /\ \E i \in Cells : board[i] = Null
                /\ ENABLED acceptedMove)

\* nine accepted moves have ended in a draw
C19_Witness ==
    /\ Full(board)
    /\ winner = "draw"
    /\ lastOp = "effect"
    /\ Count(board, "X") = 5
====
